---- MODULE Spec2Model ----
(***************************************************************************)
(* A model of the course localisation pipeline:                            *)
(*   translator.py        Cache, Translator.translate                      *)
(*   translate_course.py  process_files, translate_markdown, copy_file     *)
(*   import_course.py     download_course (section numbering)              *)
(* Strings are sequences of one-character strings, so that concatenation,  *)
(* prefixes, escaping and stripping are computed character by character.   *)
(***************************************************************************)
EXTENDS Integers, Sequences, FiniteSets, TLC

VARIABLES
    disk,       \* cache files: path -> [exists, data], data a sequence of chunks
    tr,         \* per process: the running Translator.translate call
    persisted,  \* per cache file: the mapping flushed by the last completed Cache.set
    calls,      \* translate calls started so far (bounded)
    keyIn,      \* the two (text, language) pairs whose keys are being compared
    keyOut,     \* the keys computed for keyIn
    fs,         \* the document trees: path -> [exists, content]
    sync,       \* the running process_files call (one sync run)
    prev,       \* the sync run before the current one, as it ended
    dl,         \* the section loop of download_course
    ep,         \* the run of an entry point (translate_course or import_course)
    im,         \* the running process_images_in_html call
    nm,         \* the running convert_html_to_markdown call
    sl          \* a title and the path segments built from it

cacheVars == <<disk, tr, persisted, calls>>
keyVars == <<keyIn, keyOut>>
syncVars == <<fs, sync, prev>>
treeVars == <<dl>>
entryVars == <<ep>>
markupVars == <<im, nm>>
slugVars == <<sl>>
\* The variables of the entry points and of the markup and slug functions.
extractVars == <<entryVars, markupVars, slugVars>>
vars == <<disk, tr, persisted, calls, keyIn, keyOut, fs, sync, prev, dl, ep, im, nm, sl>>

\* ------------------------------------------------------------------ bounds

\* Translate calls in one behaviour of the cache specification.
MaxCalls == 2

\* ------------------------------------------------------------- characters

QUOTE == "\""
BSLASH == "\\"
NL == "\n"
SPACE == " "
\* One non-ASCII character (CYRILLIC SMALL LETTER YA), written as its code point.
YA == "U+044F"

Whitespace == {SPACE, NL}

\* str.lower() on the characters the model uses.
Lower(c) ==
    CASE c = "T" -> "t"
      [] c = "E" -> "e"
      [] c = "X" -> "x"
      [] c = "G" -> "g"
      [] OTHER -> c

LowerStr(s) == [i \in 1..Len(s) |-> Lower(s[i])]

\* str.startswith
StartsWith(s, prefix) ==
    /\ Len(s) >= Len(prefix)
    /\ SubSeq(s, 1, Len(prefix)) = prefix

\* str.endswith
EndsWith(s, suffix) ==
    /\ Len(s) >= Len(suffix)
    /\ SubSeq(s, Len(s) - Len(suffix) + 1, Len(s)) = suffix

RECURSIVE LStrip(_)
LStrip(s) ==
    IF s # <<>> /\ Head(s) \in Whitespace THEN LStrip(Tail(s)) ELSE s

RECURSIVE RStrip(_)
RStrip(s) ==
    IF s # <<>> /\ s[Len(s)] \in Whitespace
    THEN RStrip(SubSeq(s, 1, Len(s) - 1))
    ELSE s

\* str.strip()
Strip(s) == RStrip(LStrip(s))

\* ------------------------------------------------------------------- JSON

\* A slip: the backslash itself is written unescaped.
EscapeCharNoBackslash(c) ==
    CASE c = QUOTE -> <<BSLASH, QUOTE>>
      [] c = NL -> <<BSLASH, "n">>
      [] OTHER -> <<c>>

\* json.dump's encoding of a string value (ensure_ascii=False): the quote, the
\* backslash and the control characters are escaped, everything else, non-ASCII
\* included, is written verbatim.
EscapeChar(c) ==
    CASE c = QUOTE -> <<BSLASH, QUOTE>>
      [] c = BSLASH -> <<BSLASH, BSLASH>>
      [] c = NL -> <<BSLASH, "n">>
      [] OTHER -> <<c>>

RECURSIVE Escape(_)
Escape(s) ==
    IF s = <<>> THEN <<>> ELSE EscapeChar(Head(s)) \o Escape(Tail(s))

\* json.load's decoding of the inside of a string literal: [ok, s].  A raw
\* quote ends the literal early, a raw control character and an unknown or
\* unfinished escape are errors.
RECURSIVE Unescape(_)
Unescape(e) ==
    IF e = <<>> THEN [ok |-> TRUE, s |-> <<>>]
    ELSE IF Head(e) = BSLASH THEN
        IF Len(e) < 2 \/ e[2] \notin {QUOTE, BSLASH, "n"}
        THEN [ok |-> FALSE, s |-> <<>>]
        ELSE LET c == CASE e[2] = QUOTE -> QUOTE
                        [] e[2] = BSLASH -> BSLASH
                        [] OTHER -> NL
                 rest == Unescape(SubSeq(e, 3, Len(e)))
             IN  [ok |-> rest.ok, s |-> IF rest.ok THEN <<c>> \o rest.s ELSE <<>>]
    ELSE IF Head(e) \in {QUOTE, NL} THEN [ok |-> FALSE, s |-> <<>>]
    ELSE LET rest == Unescape(Tail(e))
         IN  [ok |-> rest.ok, s |-> IF rest.ok THEN <<Head(e)>> \o rest.s ELSE <<>>]

\* The chunks json.dump writes for a mapping, in the mapping's own order: the
\* opening brace, one chunk per entry (key and escaped value), the closing brace.
Chunk(t, k, v) == [t |-> t, k |-> k, v |-> v]

JsonDump(cache) ==
    <<Chunk("{", <<>>, <<>>)>>
    \o [i \in 1..Len(cache) |-> Chunk("entry", cache[i].k, Escape(cache[i].v))]
    \o <<Chunk("}", <<>>, <<>>)>>

\* dict[key] = value on an insertion-ordered mapping.
DictStore(cache, key, value) ==
    IF \E i \in 1..Len(cache) : cache[i].k = key
    THEN [i \in 1..Len(cache) |->
            IF cache[i].k = key THEN [k |-> key, v |-> value] ELSE cache[i]]
    ELSE Append(cache, [k |-> key, v |-> value])

RECURSIVE LoadEntries(_)
LoadEntries(chunks) ==
    IF chunks = <<>> THEN <<>>
    ELSE LET c == chunks[Len(chunks)]
         IN  DictStore(LoadEntries(SubSeq(chunks, 1, Len(chunks) - 1)),
                       c.k, Unescape(c.v).s)

\* json.load: [ok, cache]; ok = FALSE stands for json.JSONDecodeError.  The
\* text is a mapping only when it opens with the brace, closes with it and
\* every chunk between them is an entry with a well-formed string literal.
JsonLoad(data) ==
    LET n == Len(data)
        wellFormed ==
            /\ n >= 2
            /\ data[1].t = "{"
            /\ data[n].t = "}"
            /\ \A i \in 2..(n - 1) : data[i].t = "entry" /\ Unescape(data[i].v).ok
    IN  IF wellFormed
        THEN [ok |-> TRUE, cache |-> LoadEntries(SubSeq(data, 2, n - 1))]
        ELSE [ok |-> FALSE, cache |-> <<>>]

\* ------------------------------------------------------------------ Cache

\* hashlib.md5(...).hexdigest(), taken to be injective: the digest of s is s
\* under a tag.
md5(s) == <<"md5">> \o s

\* f"{text}_{target_language}"
KeyMaterial(text, target_language) == text \o <<"_">> \o target_language

Key(text, target_language) == md5(KeyMaterial(text, target_language))

NoFileContent == [exists |-> FALSE, data |-> <<>>]

\* A slip: a malformed file is taken for an empty cache.
load_cache_lenient(file) ==
    IF file.exists /\ JsonLoad(file.data).ok
    THEN JsonLoad(file.data)
    ELSE [ok |-> TRUE, cache |-> <<>>]

\* A slip: the Cache is made without the caller's cache_file and uses the
\* default of its constructor.
CacheFileDefault(cache_file) == "_/translations_cache.json"

\* Cache.__init__: self.cache_file = cache_file, the file that load_cache
\* reads and save_cache writes.
CacheFileOf(cache_file) == cache_file

\* A slip: the Cache starts from an empty mapping whatever the file holds.
load_cache_fresh(file) == [ok |-> TRUE, cache |-> <<>>]

\* Cache.load_cache: [ok, cache]; a missing file is an empty cache, a malformed
\* one raises (ok = FALSE).
load_cache(file) ==
    IF file.exists THEN JsonLoad(file.data) ELSE [ok |-> TRUE, cache |-> <<>>]

\* Cache.get: dict.get(key), None when absent (found = FALSE).
CacheGet(cache, text, target_language) ==
    LET key == Key(text, target_language)
    IN  IF \E i \in 1..Len(cache) : cache[i].k = key
        THEN [found |-> TRUE,
              v |-> (CHOOSE e \in {cache[i] : i \in 1..Len(cache)} : e.k = key).v]
        ELSE [found |-> FALSE, v |-> <<>>]

\* A slip: the translation is not put into the mapping that is then saved.
CacheSetDropped(cache, text, target_language, translation) == cache

\* Cache.set, the in-memory part: self.cache[key] = translation.
CacheSet(cache, text, target_language, translation) ==
    DictStore(cache, Key(text, target_language), translation)

\* `if cached_translation:` -- None and the empty string are both falsy.
Truthy(got) == got.found /\ got.v # <<>>

\* ------------------------------------------------------------- Translator

TextPrefix == <<"t", "e", "x", "t", ":">>

\* The translation taken from the backend's answer: stripped, and a leading
\* "text:" (any case) removed and stripped again.
PostProcess(raw) ==
    LET translation == Strip(raw)
    IN  IF StartsWith(LowerStr(translation), TextPrefix)
        THEN Strip(SubSeq(translation, Len(TextPrefix) + 1, Len(translation)))
        ELSE translation

\* ----------------------------------------------------------------- inputs

Procs == {1, 2}

TitlesCache == "_/translations_cache.json"
MdCache == "_/md_cache.json"
CacheFiles == {TitlesCache, MdCache}

Texts == { <<"a">>, <<"a", "_", "b">> }

Langs == { <<"e", "n">>, <<"b", "_", "e", "n">> }

\* Answers of the translation backend (message.content).
Raws == {
    <<"h", "i">>,
    <<SPACE>>,
    <<"T", "e", "x", "t", ":", SPACE, YA>>,
    <<BSLASH, "n", QUOTE>>
}

Idle == [pc |-> "idle", text |-> <<>>, lang |-> <<>>, use_cache |-> FALSE,
         file |-> TitlesCache, cache |-> <<>>, translation |-> <<>>,
         result |-> <<>>, err |-> "", reqs |-> 0, wrote |-> FALSE,
         disk0 |-> NoFileContent, pending |-> <<>>, overlap |-> FALSE]

Finished == {"idle", "returned", "raised", "crashed"}

\* ------------------------------------------------- paths and file trees

\* str.replace: every non-overlapping occurrence of old, left to right.
RECURSIVE Replace(_, _, _)
Replace(s, old, new) ==
    IF Len(s) < Len(old) \/ old = <<>> THEN s
    ELSE IF StartsWith(s, old)
    THEN new \o Replace(SubSeq(s, Len(old) + 1, Len(s)), old, new)
    ELSE <<Head(s)>> \o Replace(Tail(s), old, new)

RootPrefix == <<"r", "u", "/">>
MdSuffix == <<".", "m", "d">>

\* Candidate paths of a change set, in the order the change set lists them:
\* a document of the source tree, an asset of the source tree in a directory
\* whose name ends in 'ru', and a file outside the source tree.
PathList == <<
    <<"r", "u", "/", "a", ".", "m", "d">>,
    <<"r", "u", "/", "g", "u", "r", "u", "/", "b", ".", "p", "n", "g">>,
    <<"x", "/", "c", ".", "m", "d">> >>

Paths == {PathList[i] : i \in 1..Len(PathList)}

SyncLangs == { <<"e", "n">> }

\* new_file_path = file_path.replace('ru/', f'{target_language}/')
NewPath(file_path, target_language) ==
    Replace(file_path, RootPrefix, target_language \o <<"/">>)

\* The mirrored destination of a path under 'ru/': its leading 'ru/' component
\* replaced by the target language, the rest unchanged.
MirrorPath(file_path, target_language) ==
    target_language \o <<"/">> \o SubSeq(file_path, Len(RootPrefix) + 1, Len(file_path))

\* Every path a tree of the model may hold.
FsPaths ==
    Paths \cup {NewPath(p, l) : p \in Paths, l \in SyncLangs}
          \cup {MirrorPath(p, l) : p \in {q \in Paths : StartsWith(q, RootPrefix)},
                                   l \in SyncLangs}

NoFile == [exists |-> FALSE, content |-> <<>>]

File(content) == [exists |-> TRUE, content |-> content]

NoTree == [p \in FsPaths |-> NoFile]

\* The bytes of the asset of PathList.
AssetBytes == <<"P", "N", "G">>

\* Answers of the translation backend to a document, or its failure.
SyncRaws == { <<"h", "i">>, <<SPACE>> }

\* The backend is not asked (its failure, which then plays no part).
NotAsked == [ok |-> FALSE, raw |-> <<>>]

BackendOutcomes ==
    {[ok |-> TRUE, raw |-> r] : r \in SyncRaws} \cup {[ok |-> FALSE, raw |-> <<>>]}

SyncIdle == [pc |-> "idle", changes |-> <<>>, lang |-> <<>>, i |-> 0, run |-> 0,
             reqs |-> 0, outs |-> <<>>, fs0 |-> NoTree]

NoRun == [run |-> 0, changes |-> <<>>, lang |-> <<>>, fs0 |-> NoTree,
          fsEnd |-> NoTree, reqs |-> 0, outs |-> <<>>]

NoDownload == [pc |-> "idle", sections |-> <<>>, i |-> 0, chapter_counter |-> 0,
               section_counter |-> 0, parent_directory |-> <<>>, docs |-> <<>>]

\* No entry point is running.
NoEntry == [pc |-> "idle", entry |-> "", token |-> FALSE, api_key |-> FALSE,
            remote |-> 0, fs0 |-> NoTree]

\* No markup is being processed.
NoImages == [pc |-> "idle", html |-> <<>>, html0 |-> <<>>, prefix |-> <<>>,
             img_tags |-> <<>>, k |-> 0, status |-> <<>>, files |-> {}]

NoNorm == [pc |-> "idle", html0 |-> <<>>, text |-> <<>>]

NoSlug == [pc |-> "idle", title |-> <<>>, numeral |-> <<>>, counter |-> 0,
           segment |-> <<>>, segment_plain |-> <<>>]

\* ---------------------------------------------------------------- actions

\* Process q is between the load of cache file f (line 107) and the end of
\* its flush (line 43): it holds a mapping read from f that it will write back.
Holding(q, f) ==
    /\ tr[q].pc \in {"request", "save_open", "save_write"}
    /\ tr[q].use_cache
    /\ tr[q].file = f

\* Translator.translate, lines 106-113: construct the Cache (load the file),
\* look the pair up and return on a hit; otherwise go on to the request.
\* overlap records that the call and a call of another process held the same
\* cache file at the same time.
\* The arguments of the call are drawn from texts, langs, caching and files.
TranslateWith(p, texts, langs, caching, files) ==
    /\ tr[p].pc \in Finished
    /\ calls < MaxCalls
    /\ \E text \in texts, lang \in langs, uc \in caching, f \in files :
        LET loaded == IF uc THEN load_cache(disk[CacheFileOf(f)])
                            ELSE [ok |-> TRUE, cache |-> <<>>]
            got == CacheGet(loaded.cache, text, lang)
            call == [Idle EXCEPT !.text = text, !.lang = lang, !.use_cache = uc,
                                 !.file = f, !.disk0 = disk[f]]
            holds == uc /\ loaded.ok /\ ~Truthy(got)
            others == {q \in Procs \ {p} : holds /\ Holding(q, f)}
        IN  tr' = [q \in Procs |->
                IF q \in others THEN [tr[q] EXCEPT !.overlap = TRUE]
                ELSE IF q # p THEN tr[q]
                ELSE IF ~loaded.ok
                THEN [call EXCEPT !.pc = "raised", !.err = "JSONDecodeError"]
                ELSE IF uc /\ Truthy(got)
                THEN [call EXCEPT !.pc = "returned", !.cache = loaded.cache,
                                  !.result = got.v]
                ELSE [call EXCEPT !.pc = "request", !.cache = loaded.cache,
                                  !.overlap = (others # {})]]
    /\ calls' = calls + 1
    /\ UNCHANGED <<disk, persisted, keyVars, extractVars, syncVars, treeVars>>

\* A call with any of the arguments of the model.
TranslateCall(p) == TranslateWith(p, Texts, Langs, BOOLEAN, CacheFiles)

\* A call of one of two sync runs started side by side: both translate
\* documents into the same language with the document cache
\* (translate_course.py, line 114).
RaceCall(p) == TranslateWith(p, Texts, SyncLangs, {TRUE}, {MdCache})

\* Lines 131-148: the backend answers; the translation is post-processed and,
\* with caching, stored in the in-memory mapping (Cache.set, line 70).
BackendRespond(p) ==
    /\ tr[p].pc = "request"
    /\ \E raw \in Raws :
        LET t == tr[p]
            translation == PostProcess(raw)
        IN  tr' = [tr EXCEPT ![p] =
                IF t.use_cache
                THEN [t EXCEPT !.pc = "save_open", !.reqs = t.reqs + 1,
                               !.translation = translation,
                               !.cache = CacheSet(t.cache, t.text, t.lang, translation)]
                ELSE [t EXCEPT !.pc = "returned", !.reqs = t.reqs + 1,
                               !.translation = translation,
                               !.result = translation]]
    /\ UNCHANGED <<disk, persisted, calls, keyVars, extractVars, syncVars, treeVars>>

\* The backend request fails: the exception leaves translate.
BackendFail(p) ==
    /\ tr[p].pc = "request"
    /\ tr' = [tr EXCEPT ![p] = [tr[p] EXCEPT !.pc = "raised", !.err = "APIError",
                                             !.reqs = tr[p].reqs + 1]]
    /\ UNCHANGED <<disk, persisted, calls, keyVars, extractVars, syncVars, treeVars>>

\* Cache.save_cache, line 42: open(cache_file, 'w') truncates the file.
SaveOpen(p) ==
    /\ tr[p].pc = "save_open"
    /\ disk' = [disk EXCEPT ![CacheFileOf(tr[p].file)] =
                                 [exists |-> TRUE, data |-> <<>>]]
    /\ tr' = [tr EXCEPT ![p] = [tr[p] EXCEPT !.pc = "save_write", !.wrote = TRUE,
                                             !.pending = JsonDump(tr[p].cache)]]
    /\ UNCHANGED <<persisted, calls, keyVars, extractVars, syncVars, treeVars>>

\* Line 43: json.dump writes the mapping chunk by chunk; after the last chunk
\* the file is closed, set returns and translate returns the translation.
SaveWrite(p) ==
    /\ tr[p].pc = "save_write"
    /\ IF tr[p].pending = <<>>
       THEN /\ tr' = [tr EXCEPT ![p] = [tr[p] EXCEPT !.pc = "returned",
                                                     !.result = tr[p].translation]]
            /\ persisted' = [persisted EXCEPT ![CacheFileOf(tr[p].file)] = tr[p].cache]
            /\ UNCHANGED disk
       ELSE /\ disk' = [disk EXCEPT ![CacheFileOf(tr[p].file)].data =
                                      Append(@, Head(tr[p].pending))]
            /\ tr' = [tr EXCEPT ![p] = [tr[p] EXCEPT !.pending = Tail(@)]]
            /\ UNCHANGED persisted
    /\ UNCHANGED <<calls, keyVars, extractVars, syncVars, treeVars>>

\* The process dies in the middle of a call: what it held in memory is gone,
\* the files stay as they are.
Crash(p) ==
    /\ tr[p].pc \in {"request", "save_open", "save_write"}
    /\ tr' = [tr EXCEPT ![p] = [Idle EXCEPT !.pc = "crashed", !.text = tr[p].text,
                                           !.lang = tr[p].lang,
                                           !.use_cache = tr[p].use_cache,
                                           !.file = tr[p].file]]
    /\ UNCHANGED <<disk, persisted, calls, keyVars, extractVars, syncVars, treeVars>>

InitCache ==
    /\ disk = [f \in CacheFiles |-> NoFileContent]
    /\ tr = [p \in Procs |-> Idle]
    /\ persisted = [f \in CacheFiles |-> <<>>]
    /\ calls = 0
    /\ ep = NoEntry
    /\ im = NoImages
    /\ nm = NoNorm
    /\ sl = NoSlug
    /\ keyIn = <<>>
    /\ keyOut = <<>>
    /\ fs = NoTree
    /\ sync = SyncIdle
    /\ prev = NoRun
    /\ dl = NoDownload

\* One process at a time uses the cache files.
NextCache ==
    \/ TranslateCall(1)
    \/ BackendRespond(1)
    \/ BackendFail(1)
    \/ SaveOpen(1)
    \/ SaveWrite(1)
    \/ Crash(1)

SpecCache == InitCache /\ [][NextCache]_vars

\* Two processes use the cache files at the same time; nothing in Cache or in
\* translate locks a file, so their steps interleave freely.  Chunks of two
\* flushes that run at the same time land in the file in the order they are
\* written.
NextRace ==
    \E p \in Procs :
        \/ RaceCall(p)
        \/ BackendRespond(p)
        \/ BackendFail(p)
        \/ SaveOpen(p)
        \/ SaveWrite(p)

SpecRace == InitCache /\ [][NextRace]_vars

\* ------------------------------------------------------ the sync run

\* Sync runs in one behaviour.
MaxRuns == 2

\* Translator.translate(text, target_language, use_cache=True, cache_file=...)
\* as one step of its caller: [raised, result, reqs, file], file the cache
\* file as the call leaves it.  outcome is what the backend does if asked.
Translate(file, text, target_language, outcome) ==
    LET loaded == load_cache(file)
        got == CacheGet(loaded.cache, text, target_language)
        translation == PostProcess(outcome.raw)
    IN  IF ~loaded.ok
        THEN [raised |-> TRUE, result |-> <<>>, reqs |-> 0, file |-> file]
        ELSE IF Truthy(got)
        THEN [raised |-> FALSE, result |-> got.v, reqs |-> 0, file |-> file]
        ELSE IF ~outcome.ok
        THEN [raised |-> TRUE, result |-> <<>>, reqs |-> 1, file |-> file]
        ELSE [raised |-> FALSE, result |-> translation, reqs |-> 1,
              file |-> [exists |-> TRUE,
                        data |-> JsonDump(CacheSet(loaded.cache, text,
                                                   target_language, translation))]]

\* What one file of the change set comes to: [status, content, reqs, cache],
\* status "skipped" (not under 'ru/'), "translated", "copied" or "failed" (an
\* exception was raised), content what was written to the destination.
\* wfail: creating or writing the destination fails.
FileResult(tree, cache, file_path, target_language, outcome, wfail) ==
    LET source == tree[file_path]
        t == Translate(cache, source.content, target_language, outcome)
    IN  IF ~StartsWith(file_path, RootPrefix)
        THEN [status |-> "skipped", content |-> <<>>, reqs |-> 0, cache |-> cache]
        ELSE IF EndsWith(file_path, MdSuffix)
        THEN \* translate_markdown
             IF ~source.exists
             THEN [status |-> "failed", content |-> <<>>, reqs |-> 0, cache |-> cache]
             ELSE IF t.raised \/ wfail
             THEN [status |-> "failed", content |-> <<>>, reqs |-> t.reqs,
                   cache |-> t.file]
             ELSE [status |-> "translated", content |-> t.result, reqs |-> t.reqs,
                   cache |-> t.file]
        ELSE \* copy_file
             IF wfail \/ ~source.exists
             THEN [status |-> "failed", content |-> <<>>, reqs |-> 0, cache |-> cache]
             ELSE [status |-> "copied", content |-> source.content, reqs |-> 0,
                   cache |-> cache]

\* A slip: no try/except around the file, the exception ends process_files.
AfterFileUncaught(i, n, status) ==
    IF status = "failed" THEN [pc |-> "aborted", i |-> i]
    ELSE IF i < n THEN [pc |-> "loop", i |-> i + 1]
    ELSE [pc |-> "done", i |-> i + 1]

\* Where the loop of process_files stands after file i of n: an exception
\* raised for the file was caught and logged inside translate_markdown or
\* copy_file, so the loop goes on to the next file whatever the status.
AfterFile(i, n, status) ==
    IF i < n THEN [pc |-> "loop", i |-> i + 1] ELSE [pc |-> "done", i |-> i + 1]

\* The paths of PathList at the positions in S, in PathList's order.
RECURSIVE SubList(_, _)
SubList(S, k) ==
    IF k = 0 THEN <<>>
    ELSE IF k \in S THEN Append(SubList(S, k - 1), PathList[k])
    ELSE SubList(S, k - 1)

\* os.walk('ru'): every file that exists under the source root.
Walk(tree) ==
    SubList({k \in 1..Len(PathList) :
                StartsWith(PathList[k], <<"r", "u">>) /\ tree[PathList[k]].exists},
            Len(PathList))

\* __main__: a run starts process_files on a change set that is not empty:
\* the files a commit touched (removed files and files outside the source
\* tree included) or every file under 'ru'.
StartRun ==
    /\ sync.pc \in {"idle", "done"}
    /\ sync.run < MaxRuns
    /\ \E S \in (SUBSET (1..Len(PathList))) \ {{}}, lang \in SyncLangs :
        sync' = [pc |-> "loop", changes |-> SubList(S, Len(PathList)), lang |-> lang,
                 i |-> 1, run |-> sync.run + 1, reqs |-> 0, outs |-> <<>>,
                 fs0 |-> fs]
    /\ prev' = IF sync.run = 0 THEN prev
               ELSE [run |-> sync.run, changes |-> sync.changes, lang |-> sync.lang,
                     fs0 |-> sync.fs0,
                     fsEnd |-> [p \in FsPaths |->
                                  IF p \in Paths THEN sync.fs0[p] ELSE fs[p]],
                     reqs |-> sync.reqs, outs |-> sync.outs]
    /\ UNCHANGED <<fs, disk, tr, persisted, calls, keyVars, extractVars, treeVars>>

\* One iteration of the loop of process_files, lines 68-79, with the whole of
\* translate_markdown or copy_file.
ProcessFile ==
    /\ sync.pc = "loop"
    /\ \E outcome \in (IF EndsWith(sync.changes[sync.i], MdSuffix)
                       THEN BackendOutcomes ELSE {NotAsked}),
          wfail \in (IF StartsWith(sync.changes[sync.i], RootPrefix)
                     THEN BOOLEAN ELSE {FALSE}) :
        \E file_path \in {sync.changes[sync.i]} :
        \E new_file_path \in {NewPath(file_path, sync.lang)} :
        \E r \in {FileResult(fs, disk[MdCache], file_path, sync.lang, outcome, wfail)} :
        \E after \in {AfterFile(sync.i, Len(sync.changes), r.status)} :
            /\ fs' = IF r.status \in {"translated", "copied"}
                     THEN [fs EXCEPT ![new_file_path] = File(r.content)]
                     ELSE fs
            /\ disk' = [disk EXCEPT ![MdCache] = r.cache]
            /\ sync' = [sync EXCEPT !.pc = after.pc, !.i = after.i,
                                    !.reqs = @ + r.reqs,
                                    !.outs = Append(@, [status |-> r.status,
                                                        content |-> r.content])]
    /\ UNCHANGED <<prev, tr, persisted, calls, keyVars, extractVars, treeVars>>

\* The process is killed while translate_markdown's translate call is inside
\* Cache.save_cache (translator.py line 42 has truncated the cache file, line
\* 43 has written nothing yet): the run ends there, the file stays empty.
KilledInFlush ==
    /\ sync.pc = "loop"
    /\ \E file_path \in {sync.changes[sync.i]} :
        /\ StartsWith(file_path, RootPrefix)
        /\ EndsWith(file_path, MdSuffix)
        /\ fs[file_path].exists
        /\ load_cache(disk[MdCache]).ok
        /\ ~Truthy(CacheGet(load_cache(disk[MdCache]).cache,
                            fs[file_path].content, sync.lang))
    /\ disk' = [disk EXCEPT ![MdCache] = [exists |-> TRUE, data |-> <<>>]]
    /\ sync' = [sync EXCEPT !.pc = "idle", !.reqs = @ + 1]
    /\ UNCHANGED <<fs, prev, tr, persisted, calls, keyVars, extractVars, treeVars>>

\* Between two runs a commit removes a file of the source tree.
UpstreamDelete ==
    /\ sync.pc \in {"idle", "done"}
    /\ sync.run < MaxRuns
    /\ \E p \in Paths :
        /\ fs[p].exists
        /\ fs' = [fs EXCEPT ![p] = NoFile]
    /\ sync' = [sync EXCEPT !.pc = "idle"]
    /\ UNCHANGED <<prev, disk, tr, persisted, calls, keyVars, extractVars, treeVars>>

InitSync ==
    /\ disk = [f \in CacheFiles |-> NoFileContent]
    /\ tr = [p \in Procs |-> Idle]
    /\ persisted = [f \in CacheFiles |-> <<>>]
    /\ calls = 0
    /\ ep = NoEntry
    /\ im = NoImages
    /\ nm = NoNorm
    /\ sl = NoSlug
    /\ keyIn = <<>>
    /\ keyOut = <<>>
    /\ \E c \in Texts :
        fs = [p \in FsPaths |->
                IF p = PathList[1] THEN File(c)
                ELSE IF p = PathList[2] THEN File(AssetBytes)
                ELSE IF p = PathList[3] THEN File(<<"a">>)
                ELSE NoFile]
    /\ sync = SyncIdle
    /\ prev = NoRun
    /\ dl = NoDownload

NextSync ==
    \/ StartRun
    \/ ProcessFile
    \/ KilledInFlush
    \/ UpstreamDelete

SpecSync == InitSync /\ [][NextSync]_vars

\* ------------------------------------------------- the section tree

\* Sections in a course version.
MaxSections == 4

DigitChars == <<"0", "1", "2", "3", "4", "5", "6", "7", "8", "9">>

\* f"{n:02d}" for 0 <= n < 100.
TwoDigits(n) == <<DigitChars[(n \div 10) + 1], DigitChars[(n % 10) + 1]>>

IsDigit(c) == \E d \in 1..Len(DigitChars) : DigitChars[d] = c

SlugChars == {"a", "b", "e", "g", "h", "i", "n", "o", "t", "x", "y"}

\* slugify.slugify, character by character: non-ASCII letters are
\* transliterated, letters lowered, anything that is no letter or digit
\* becomes a hyphen.
SlugChar(c) ==
    IF c = YA THEN <<"y", "a">>
    ELSE IF Lower(c) \in SlugChars \/ IsDigit(c) THEN <<Lower(c)>>
    ELSE <<"-">>

RECURSIVE SlugMap(_)
SlugMap(s) == IF s = <<>> THEN <<>> ELSE SlugChar(Head(s)) \o SlugMap(Tail(s))

\* Runs of hyphens become one hyphen.
RECURSIVE Squeeze(_)
Squeeze(s) ==
    IF Len(s) < 2 THEN s
    ELSE IF s[1] = "-" /\ s[2] = "-" THEN Squeeze(Tail(s))
    ELSE <<Head(s)>> \o Squeeze(Tail(s))

RECURSIVE DropLeading(_, _)
DropLeading(s, chars) ==
    IF s # <<>> /\ Head(s) \in chars THEN DropLeading(Tail(s), chars) ELSE s

RECURSIVE DropTrailing(_, _)
DropTrailing(s, chars) ==
    IF s # <<>> /\ s[Len(s)] \in chars
    THEN DropTrailing(SubSeq(s, 1, Len(s) - 1), chars)
    ELSE s

\* slugify.slugify(title)
slugify(title) == DropTrailing(DropLeading(Squeeze(SlugMap(title)), {"-"}), {"-"})

\* clean_slug: re.sub(r'^[0-9]+-*', '', slug)
clean_slug(slug) ==
    IF slug # <<>> /\ IsDigit(Head(slug))
    THEN DropLeading(DropLeading(slug, {DigitChars[d] : d \in 1..Len(DigitChars)}),
                     {"-"})
    ELSE slug

English == <<"E", "n", "g", "l", "i", "s", "h">>

SectionTypes == {"HEADER", "TEXT", "OTHER"}

SectionTitles == { <<YA>>, <<"3", "-", YA>> }

\* Answers of the translation backend to a title, or its failure.
TitleRaws == { <<"G", "o">>, <<"3", "-", "G", "o">> }

TitleOutcomes ==
    {[ok |-> TRUE, raw |-> r] : r \in TitleRaws} \cup {[ok |-> FALSE, raw |-> <<>>]}

SectionLists ==
    UNION {[1..n -> [type : SectionTypes, title : SectionTitles]] : n \in 0..MaxSections}

\* A slip: any section that is not a TEXT opens a chapter.
IsChapterBoundaryNotText(type, chapter_counter) ==
    type # "TEXT" \/ chapter_counter = 0

\* Line 215: section["type"] == "HEADER" or chapter_counter == 0
IsChapterBoundary(type, chapter_counter) ==
    type = "HEADER" \/ chapter_counter = 0

\* A slip: the section counter is not reset at the chapter boundary.
EnterChapterNoReset(st, translated_title) ==
    [chapter_counter |-> st.chapter_counter + 1,
     section_counter |-> st.section_counter,
     parent_directory |->
        IF st.chapter_counter + 1 > 1
        THEN TwoDigits(st.chapter_counter + 1) \o <<"-">>
                 \o clean_slug(slugify(translated_title))
        ELSE <<>>]

\* Lines 216-224: the counters and the directory at a chapter boundary.
EnterChapter(st, translated_title) ==
    [chapter_counter |-> st.chapter_counter + 1,
     section_counter |-> 0,
     parent_directory |->
        IF st.chapter_counter + 1 > 1
        THEN TwoDigits(st.chapter_counter + 1) \o <<"-">>
                 \o clean_slug(slugify(translated_title))
        ELSE <<>>]

\* A slip: the directory is always joined with the chapter directory, also
\* when that is empty (os.path.join("ru", "") is "ru/").
DocPathAlwaysJoined(parent_directory, section_counter, translated_title) ==
    [directory |-> <<"r", "u", "/">> \o parent_directory,
     filename |-> TwoDigits(section_counter) \o <<"-">>
                      \o clean_slug(slugify(translated_title)) \o MdSuffix]

\* A slip: the file name is the slug alone, without the section counter.
DocPathUnnumbered(parent_directory, section_counter, translated_title) ==
    [directory |-> IF parent_directory # <<>>
                   THEN <<"r", "u", "/">> \o parent_directory
                   ELSE <<"r", "u">>,
     filename |-> clean_slug(slugify(translated_title)) \o MdSuffix]

\* Lines 229-237: where the document of a TEXT section goes.
DocPath(parent_directory, section_counter, translated_title) ==
    [directory |-> IF parent_directory # <<>>
                   THEN <<"r", "u", "/">> \o parent_directory
                   ELSE <<"r", "u">>,
     filename |-> TwoDigits(section_counter) \o <<"-">>
                      \o clean_slug(slugify(translated_title)) \o MdSuffix]

\* One iteration of the loop of download_course, lines 214-244.  o1 and o2
\* are what the backend does if the chapter title and the section title are
\* asked for; fetched: load_section and the conversion of the markup succeed.
SectionStep ==
    /\ dl.pc = "loop"
    /\ \E o1 \in (IF IsChapterBoundary(dl.sections[dl.i].type, dl.chapter_counter)
                  THEN TitleOutcomes ELSE {NotAsked}),
          o2 \in (IF dl.sections[dl.i].type = "TEXT"
                  THEN TitleOutcomes ELSE {NotAsked}),
          fetched \in (IF dl.sections[dl.i].type = "TEXT" THEN BOOLEAN ELSE {TRUE}) :
        \* lines 215-224
        \E section \in {dl.sections[dl.i]} :
        \E boundary \in {IsChapterBoundary(section.type, dl.chapter_counter)} :
        \E t1 \in {IF boundary
                   THEN Translate(disk[TitlesCache], section.title, English, o1)
                   ELSE [raised |-> FALSE, result |-> <<>>, reqs |-> 0,
                         file |-> disk[TitlesCache]]} :
        \E st1 \in {IF ~boundary
                    THEN [chapter_counter |-> dl.chapter_counter,
                          section_counter |-> dl.section_counter,
                          parent_directory |-> dl.parent_directory]
                    ELSE IF t1.raised
                    THEN [chapter_counter |-> dl.chapter_counter + 1,
                          section_counter |-> 0,
                          parent_directory |-> dl.parent_directory]
                    ELSE EnterChapter([chapter_counter |-> dl.chapter_counter,
                                       section_counter |-> dl.section_counter,
                                       parent_directory |-> dl.parent_directory],
                                      t1.result)} :
        \* lines 226-244
        \E isText \in {section.type = "TEXT" /\ ~t1.raised} :
        \E t2 \in {IF isText
                   THEN Translate(t1.file, section.title, English, o2)
                   ELSE [raised |-> FALSE, result |-> <<>>, reqs |-> 0,
                         file |-> t1.file]} :
        \E raised \in {t1.raised \/ (isText /\ (t2.raised \/ ~fetched))} :
        \E section_counter \in {IF isText THEN st1.section_counter + 1
                                ELSE st1.section_counter} :
        \E path \in {DocPath(st1.parent_directory, section_counter, t2.result)} :
            /\ disk' = [disk EXCEPT ![TitlesCache] = t2.file]
            /\ dl' = [dl EXCEPT
                        !.chapter_counter = st1.chapter_counter,
                        !.section_counter = section_counter,
                        !.parent_directory = st1.parent_directory,
                        !.docs = IF isText /\ ~raised
                                 THEN Append(@, [pos |-> dl.i,
                                                 chapter |-> st1.chapter_counter,
                                                 section |-> section_counter,
                                                 directory |-> path.directory,
                                                 filename |-> path.filename])
                                 ELSE @,
                        !.i = IF raised THEN @ ELSE @ + 1,
                        !.pc = IF raised THEN "raised"
                               ELSE IF dl.i = Len(dl.sections) THEN "done"
                               ELSE "loop"]
    /\ UNCHANGED <<tr, persisted, calls, keyVars, extractVars, syncVars>>

InitTree ==
    /\ disk = [f \in CacheFiles |-> NoFileContent]
    /\ tr = [p \in Procs |-> Idle]
    /\ persisted = [f \in CacheFiles |-> <<>>]
    /\ calls = 0
    /\ ep = NoEntry
    /\ im = NoImages
    /\ nm = NoNorm
    /\ sl = NoSlug
    /\ keyIn = <<>>
    /\ keyOut = <<>>
    /\ fs = NoTree
    /\ sync = SyncIdle
    /\ prev = NoRun
    /\ \E sections \in SectionLists :
        dl = [pc |-> IF sections = <<>> THEN "done" ELSE "loop",
              sections |-> sections, i |-> 1, chapter_counter |-> 0,
              section_counter |-> 0, parent_directory |-> <<>>, docs |-> <<>>]

NextTree == SectionStep

SpecTree == InitTree /\ [][NextTree]_vars

\* ------------------------------------------------------- cache key inputs

KeyTexts == Texts \cup { <<>>, <<"a", SPACE>> }

KeyLangs == Langs \cup { <<"E", "n">> }

InitKey ==
    /\ disk = [f \in CacheFiles |-> NoFileContent]
    /\ tr = [p \in Procs |-> Idle]
    /\ persisted = [f \in CacheFiles |-> <<>>]
    /\ calls = 0
    /\ ep = NoEntry
    /\ im = NoImages
    /\ nm = NoNorm
    /\ sl = NoSlug
    /\ keyIn \in (KeyTexts \X KeyLangs) \X (KeyTexts \X KeyLangs)
    /\ keyOut = <<>>
    /\ fs = NoTree
    /\ sync = SyncIdle
    /\ prev = NoRun
    /\ dl = NoDownload

\* The key Cache.get and Cache.set compute (lines 56 and 69) for each pair.
ComputeKeys ==
    /\ keyOut = <<>>
    /\ keyOut' = <<Key(keyIn[1][1], keyIn[1][2]), Key(keyIn[2][1], keyIn[2][2])>>
    /\ UNCHANGED <<cacheVars, keyIn, syncVars, treeVars, extractVars>>

NextKey == ComputeKeys

SpecKey == InitKey /\ [][NextKey]_vars

\* ------------------------------------------------------ the entry points

EntryPoints == {"translate", "download"}

\* The section lists of the course versions the content service returns.
EntrySections == {
    <<>>,
    << [type |-> "TEXT", title |-> <<YA>>] >>,
    << [type |-> "HEADER", title |-> <<YA>>], [type |-> "TEXT", title |-> <<YA>>] >>
}

\* translate_course.py, lines 176-179: without OPENAI_API_KEY the script logs
\* the error and exits with status 1.
MainCheckKey ==
    /\ ep.pc = "start"
    /\ ep.entry = "translate"
    /\ ep' = [ep EXCEPT !.pc = IF ep.api_key THEN "list" ELSE "exit1"]
    /\ UNCHANGED <<cacheVars, keyVars, syncVars, treeVars, markupVars, slugVars>>

\* Lines 181-195: the change set is the files of a commit (any candidate
\* paths, none when the commit cannot be read) or every file under 'ru'; an
\* empty change set ends the script, any other is handed to process_files.
MainListFiles ==
    /\ ep.pc = "list"
    /\ \E S \in SUBSET (1..Len(PathList)), lang \in SyncLangs, all \in BOOLEAN :
        \E changed_files \in {IF all THEN Walk(fs) ELSE SubList(S, Len(PathList))} :
            /\ all => S = {}
            /\ IF changed_files = <<>>
               THEN /\ ep' = [ep EXCEPT !.pc = "exit0"]
                    /\ UNCHANGED sync
               ELSE /\ ep' = [ep EXCEPT !.pc = "process_files"]
                    /\ sync' = [pc |-> "loop", changes |-> changed_files,
                                lang |-> lang, i |-> 1, run |-> sync.run + 1,
                                reqs |-> 0, outs |-> <<>>, fs0 |-> fs]
    /\ UNCHANGED <<cacheVars, keyVars, fs, prev, treeVars, markupVars, slugVars>>

\* import_course.py, line 192: remove_directory('ru') is the first statement of
\* download_course.
RemoveTree ==
    /\ ep.pc = "start"
    /\ ep.entry = "download"
    /\ fs' = [p \in FsPaths |-> IF StartsWith(p, RootPrefix) THEN NoFile ELSE fs[p]]
    /\ ep' = [ep EXCEPT !.pc = "get_course"]
    /\ UNCHANGED <<cacheVars, keyVars, sync, prev, treeVars, markupVars, slugVars>>

\* Lines 194-198: the client is built with whatever AISYSTANT_SESSION_TOKEN
\* holds and the course list is requested.  The service answers with an error
\* status (raise_for_status raises), or with a list that does not hold the
\* course (download_course returns), or with one that does.
GetCourse ==
    /\ ep.pc = "get_course"
    /\ \E answer \in {"error", "not_listed", "listed"} :
        ep' = [ep EXCEPT !.remote = @ + 1,
                         !.pc = CASE answer = "error" -> "raised"
                                  [] answer = "not_listed" -> "returned"
                                  [] OTHER -> "start_course"]
    /\ UNCHANGED <<cacheVars, keyVars, syncVars, treeVars, markupVars, slugVars>>

\* Lines 200-203: start_course, get_passing_id and get_course_version, one
\* remote call each; an error status raises.  The last one brings the
\* section list.
CourseCall ==
    /\ ep.pc \in {"start_course", "get_passing_id", "get_course_version"}
    /\ \E ok \in BOOLEAN, sections \in EntrySections :
        /\ (ep.pc # "get_course_version" \/ ~ok) => sections = <<>>
        /\ ep' = [ep EXCEPT !.remote = @ + 1,
                            !.pc = CASE ~ok -> "raised"
                                     [] ep.pc = "start_course" -> "get_passing_id"
                                     [] ep.pc = "get_passing_id" -> "get_course_version"
                                     [] OTHER -> "translator"]
        /\ dl' = [dl EXCEPT !.sections = sections]
    /\ UNCHANGED <<cacheVars, keyVars, syncVars, markupVars, slugVars>>

\* Lines 206-212: Translator(api_key); openai.OpenAI raises when it is given
\* no key.  Then the counters are set and the loop over the sections starts.
MakeTranslator ==
    /\ ep.pc = "translator"
    /\ IF ep.api_key
       THEN /\ ep' = [ep EXCEPT !.pc = "sections"]
            /\ dl' = [dl EXCEPT !.pc = IF dl.sections = <<>> THEN "done" ELSE "loop",
                                !.i = 1, !.chapter_counter = 0,
                                !.section_counter = 0, !.parent_directory = <<>>]
       ELSE /\ ep' = [ep EXCEPT !.pc = "raised"]
            /\ UNCHANGED dl
    /\ UNCHANGED <<cacheVars, keyVars, syncVars, markupVars, slugVars>>

InitEntry ==
    /\ disk = [f \in CacheFiles |-> NoFileContent]
    /\ tr = [p \in Procs |-> Idle]
    /\ persisted = [f \in CacheFiles |-> <<>>]
    /\ calls = 0
    /\ im = NoImages
    /\ nm = NoNorm
    /\ sl = NoSlug
    /\ keyIn = <<>>
    /\ keyOut = <<>>
    /\ \E c \in Texts, entry \in EntryPoints, token \in BOOLEAN, api_key \in BOOLEAN :
        /\ fs = [p \in FsPaths |->
                   IF p = PathList[1] THEN File(c)
                   ELSE IF p = PathList[2] THEN File(AssetBytes)
                   ELSE IF p = PathList[3] THEN File(<<"a">>)
                   ELSE NoFile]
        /\ ep = [pc |-> "start", entry |-> entry, token |-> token,
                 api_key |-> api_key, remote |-> 0, fs0 |-> fs]
    /\ sync = SyncIdle
    /\ prev = NoRun
    /\ dl = NoDownload

NextEntry ==
    \/ MainCheckKey
    \/ MainListFiles
    \/ ProcessFile
    \/ RemoveTree
    \/ GetCourse
    \/ CourseCall
    \/ MakeTranslator
    \/ SectionStep

SpecEntry == InitEntry /\ [][NextEntry]_vars

\* ------------------------------------------------- images in the markup

\* Image references of one markup.
MaxImages == 2

\* Markup is a sequence of characters in which the lexemes of an image
\* reference are single tokens: the opening of the tag, the '/text/' root of
\* an asset path, and the two ways the tag goes on after the path.
IMG == "<img src=\""
TEXTDIR == "/text/"
ALT == "\" alt=\"x\">"
CLOSE == "\">"

\* The tokens that hold a double quote.
HasQuote(c) == c \in {IMG, ALT, CLOSE, QUOTE}

\* The first position from j on whose token holds a double quote (Len + 1 when
\* there is none): where [^"]* stops.
RECURSIVE QuoteFrom(_, _)
QuoteFrom(html, j) ==
    IF j > Len(html) \/ HasQuote(html[j]) THEN j ELSE QuoteFrom(html, j + 1)

\* re.findall(r'<img src="(/text/[^"]*)" alt="[^"]*">', html) from position i:
\* the captured paths of the matches, left to right, without overlap.
RECURSIVE FindImgTags(_, _)
FindImgTags(html, i) ==
    IF i > Len(html) THEN <<>>
    ELSE IF i < Len(html) /\ html[i] = IMG /\ html[i + 1] = TEXTDIR
    THEN LET j == QuoteFrom(html, i + 2)
         IN  IF j <= Len(html) /\ html[j] = ALT
             THEN <<SubSeq(html, i + 1, j - 1)>> \o FindImgTags(html, j + 1)
             ELSE FindImgTags(html, i + 1)
    ELSE FindImgTags(html, i + 1)

\* os.path.basename: what follows the last slash.
RECURSIVE basename(_)
basename(path) ==
    IF path = <<>> \/ path[Len(path)] \in {"/", TEXTDIR} THEN <<>>
    ELSE Append(basename(SubSeq(path, 1, Len(path) - 1)), path[Len(path)])

\* new_filename = f"{prefix}-{os.path.basename(img_tag)}"
NewFilename(prefix, img_tag) == prefix \o <<"-">> \o basename(img_tag)

Intro == <<"0", "2", "-", "i", "n", "t", "r", "o">>

Prefixes == {Intro}

Img1Png == <<"i", "m", "g", "1", ".", "p", "n", "g">>

\* Asset paths under /text/: a file, a path that is the beginning of another
\* one, and a file in a subdirectory.
ImgPaths == {Img1Png, <<"i", "m", "g", "1">>, <<"d", "/", "i", "m", "g", "1">>}

\* An image reference with the alt attribute, and one without.
ImgAlt(path) == <<IMG, TEXTDIR>> \o path \o <<ALT>>
ImgBare(path) == <<IMG, TEXTDIR>> \o path \o <<CLOSE>>

ImgElements == {ImgAlt(q) : q \in ImgPaths} \cup {ImgBare(q) : q \in ImgPaths}

RECURSIVE Concat(_)
Concat(ss) == IF ss = <<>> THEN <<>> ELSE Head(ss) \o Concat(Tail(ss))

\* Markups: a paragraph with up to MaxImages image references.
Markups ==
    {<<"<p>">> \o Concat(es) :
        es \in UNION {[1..n -> ImgElements] : n \in 0..MaxImages}}

\* Lines 78-79: the paths of the image references are collected, the directory
\* is made.
FindImages ==
    /\ im.pc = "start"
    /\ \E img_tags \in {FindImgTags(im.html, 1)} :
        im' = [im EXCEPT !.img_tags = img_tags, !.k = 1,
                         !.pc = IF img_tags = <<>> THEN "returned" ELSE "loop"]
    /\ UNCHANGED <<cacheVars, keyVars, syncVars, treeVars, entryVars, nm, slugVars>>

\* One iteration of the loop, lines 81-91, and the return on line 92 after the
\* last one: the image is requested; with status 200 it is written under its
\* new name and the path is replaced in the markup, with any other status the
\* error is logged.
FetchImage ==
    /\ im.pc = "loop"
    /\ \E ok \in BOOLEAN :
        \E img_tag \in {im.img_tags[im.k]} :
        \E new_filename \in {NewFilename(im.prefix, img_tag)} :
            im' = [im EXCEPT
                     !.status = Append(@, ok),
                     !.files = IF ok THEN @ \cup {new_filename} ELSE @,
                     !.html = IF ok THEN Replace(@, img_tag, new_filename) ELSE @,
                     !.k = @ + 1,
                     !.pc = IF im.k = Len(im.img_tags) THEN "returned" ELSE "loop"]
    /\ UNCHANGED <<cacheVars, keyVars, syncVars, treeVars, entryVars, nm, slugVars>>

InitImages ==
    /\ disk = [f \in CacheFiles |-> NoFileContent]
    /\ tr = [p \in Procs |-> Idle]
    /\ persisted = [f \in CacheFiles |-> <<>>]
    /\ calls = 0
    /\ ep = NoEntry
    /\ nm = NoNorm
    /\ sl = NoSlug
    /\ keyIn = <<>>
    /\ keyOut = <<>>
    /\ fs = NoTree
    /\ sync = SyncIdle
    /\ prev = NoRun
    /\ dl = NoDownload
    /\ \E html \in Markups, prefix \in Prefixes :
        im = [NoImages EXCEPT !.pc = "start", !.html = html, !.html0 = html,
                              !.prefix = prefix]

NextImages ==
    \/ FindImages
    \/ FetchImage

SpecImages == InitImages /\ [][NextImages]_vars

\* ------------------------------------------- footnotes in the markup

\* Elements (footnotes, text, blocks) in one paragraph of markup.
MaxElements == 2

\* The lexemes of the popup-footnote idiom are single tokens of the markup:
\* the clickable span with the id in its onclick, the superscript number, the
\* popup text span with its id, the '[x] ' that opens the popup text, and the
\* two closing tags.
PopupOpen(id) ==
    IF id = "fn1"
    THEN "<span class=\"sspopup\" onclick=\"document.getElementById('fn1').classList.toggle('show')\">"
    ELSE "<span class=\"sspopup\" onclick=\"document.getElementById('fn2').classList.toggle('show')\">"
PopupText(id) ==
    IF id = "fn1" THEN "<span class=\"sspopuptext\" id=\"fn1\">"
                  ELSE "<span class=\"sspopuptext\" id=\"fn2\">"
SUP == "<sup>1</sup>"
XMARK == "[x] "
CLOSE2 == "</span></span>"

PopupIds == {"fn1", "fn2"}

BEGINCOMMENT == "{{{begincomment}}}"
ENDCOMMENT == "{{{endcomment}}}"

\* The first position from j on that holds tok (Len + 1 when there is none).
RECURSIVE NextTok(_, _, _)
NextTok(html, j, tok) ==
    IF j > Len(html) \/ html[j] = tok THEN j ELSE NextTok(html, j + 1, tok)

\* The footnote pattern of lines 105-108 matches at position i: the span with
\* an id, the number, the popup text span with the same id (\1), '[x] ', a body
\* of at least one character up to the first closing pair after it; '.' does
\* not match a newline.
FootnoteAt(html, i) ==
    /\ i + 5 <= Len(html)
    /\ \E id \in PopupIds : html[i] = PopupOpen(id) /\ html[i + 2] = PopupText(id)
    /\ html[i + 1] = SUP
    /\ html[i + 3] = XMARK
    /\ NextTok(html, i + 5, CLOSE2) <= Len(html)
    /\ \A m \in (i + 4)..(NextTok(html, i + 5, CLOSE2) - 1) : html[m] # NL

\* process_footnotes_in_html: re.sub of the pattern by
\* {{{begincomment}}}\3{{{endcomment}}}, from position i on.
RECURSIVE process_footnotes_in_html(_, _)
process_footnotes_in_html(html, i) ==
    IF i > Len(html) THEN <<>>
    ELSE IF FootnoteAt(html, i)
    THEN LET j == NextTok(html, i + 5, CLOSE2)
         IN  <<BEGINCOMMENT>> \o SubSeq(html, i + 4, j - 1) \o <<ENDCOMMENT>>
                 \o process_footnotes_in_html(html, j + 1)
    ELSE <<html[i]>> \o process_footnotes_in_html(html, i + 1)

DIVOPEN == "<div style=\"s\">"
DIVCLOSE == "</div>"
FENCE == ":::"
ATTRS == "{style=\"s\"}"
FNDEF == "[^1]: "

\* pypandoc.convert_text(html, 'md', format='html'), the external converter, on
\* the tokens of the model: paragraph tags become line breaks, a styled block
\* becomes a fenced block, everything else (text, the placeholders) is passed
\* through.
RECURSIVE convert_text(_)
convert_text(html) ==
    IF html = <<>> THEN <<>>
    ELSE (CASE Head(html) = "<p>" -> <<>>
            [] Head(html) = "</p>" -> <<NL>>
            [] Head(html) = DIVOPEN -> <<FENCE, SPACE, ATTRS, NL>>
            [] Head(html) = DIVCLOSE -> <<NL, FENCE, NL>>
            [] OTHER -> <<Head(html)>>) \o convert_text(Tail(html))

\* Line 150: re.sub(r'(\[\^\d+\]: .+?)(\[\^\d+\]: )', r'\1\n\n\2', text): a
\* footnote definition followed on its line, after at least one character, by
\* another one gets a blank line before the second.
RECURSIVE SeparateDefinitions(_, _)
SeparateDefinitions(text, i) ==
    IF i > Len(text) THEN <<>>
    ELSE LET j == NextTok(text, i + 2, FNDEF)
         IN  IF text[i] = FNDEF /\ j <= Len(text)
                              /\ \A m \in (i + 1)..(j - 1) : text[m] # NL
             THEN SubSeq(text, i, j - 1) \o <<NL, NL, FNDEF>>
                      \o SeparateDefinitions(text, j + 1)
             ELSE <<text[i]>> \o SeparateDefinitions(text, i + 1)

\* The first position from j on that holds no whitespace.
RECURSIVE SkipSpace(_, _)
SkipSpace(text, j) ==
    IF j <= Len(text) /\ text[j] \in Whitespace THEN SkipSpace(text, j + 1) ELSE j

\* Line 124: re.sub(r':::\s*\{[^}]*\}', '', text)
RECURSIVE DropFenceAttrs(_, _)
DropFenceAttrs(text, i) ==
    IF i > Len(text) THEN <<>>
    ELSE IF text[i] = FENCE /\ SkipSpace(text, i + 1) <= Len(text)
                            /\ text[SkipSpace(text, i + 1)] = ATTRS
    THEN DropFenceAttrs(text, SkipSpace(text, i + 1) + 1)
    ELSE <<text[i]>> \o DropFenceAttrs(text, i + 1)

\* clean_markdown_text, lines 124-126.
clean_markdown_text(text) == Replace(DropFenceAttrs(text, 1), <<FENCE>>, <<>>)

SeeNote == <<"s", "e", "e", SPACE, "n", "o", "t", "e">>

\* Footnote bodies: one line of text, or two lines.
Bodies == {SeeNote, <<"a">>, <<"a", NL, "b">>}

Footnote(id, body) ==
    <<PopupOpen(id), SUP, PopupText(id), XMARK>> \o body \o <<CLOSE2>>

NormElements ==
    {Footnote(id, body) : id \in PopupIds, body \in Bodies}
        \cup { <<"t">>, <<DIVOPEN, "t", DIVCLOSE>>, <<FNDEF, "t", FNDEF, "t">> }

\* Markups: a paragraph of up to MaxElements elements.
NormMarkups ==
    {<<"<p>">> \o Concat(es) \o <<"</p>">> :
        es \in UNION {[1..n -> NormElements] : n \in 0..MaxElements}}

\* convert_html_to_markdown, line 141: the footnotes are replaced by the
\* placeholders.
ExtractFootnotes ==
    /\ nm.pc = "start"
    /\ nm' = [nm EXCEPT !.pc = "convert", !.text = process_footnotes_in_html(@, 1)]
    /\ UNCHANGED <<cacheVars, keyVars, syncVars, treeVars, entryVars, im, slugVars>>

\* Line 144: the converter.
ConvertText ==
    /\ nm.pc = "convert"
    /\ nm' = [nm EXCEPT !.pc = "restore", !.text = convert_text(@)]
    /\ UNCHANGED <<cacheVars, keyVars, syncVars, treeVars, entryVars, im, slugVars>>

\* Lines 147-150: the placeholders become '^[' and ']', footnote definitions
\* are set apart.
RestoreFootnotes ==
    /\ nm.pc = "restore"
    /\ nm' = [nm EXCEPT
                !.pc = "clean",
                !.text = SeparateDefinitions(
                             Replace(Replace(@, <<BEGINCOMMENT>>, <<"^[">>),
                                     <<ENDCOMMENT>>, <<"]">>), 1)]
    /\ UNCHANGED <<cacheVars, keyVars, syncVars, treeVars, entryVars, im, slugVars>>

\* Lines 153-155: the block artifacts are removed and the Markdown returned.
CleanMarkdown ==
    /\ nm.pc = "clean"
    /\ nm' = [nm EXCEPT !.pc = "returned", !.text = clean_markdown_text(@)]
    /\ UNCHANGED <<cacheVars, keyVars, syncVars, treeVars, entryVars, im, slugVars>>

InitNorm ==
    /\ disk = [f \in CacheFiles |-> NoFileContent]
    /\ tr = [p \in Procs |-> Idle]
    /\ persisted = [f \in CacheFiles |-> <<>>]
    /\ calls = 0
    /\ ep = NoEntry
    /\ im = NoImages
    /\ sl = NoSlug
    /\ keyIn = <<>>
    /\ keyOut = <<>>
    /\ fs = NoTree
    /\ sync = SyncIdle
    /\ prev = NoRun
    /\ dl = NoDownload
    /\ \E html \in NormMarkups :
        nm = [pc |-> "start", html0 |-> html, text |-> html]

NextNorm ==
    \/ ExtractFootnotes
    \/ ConvertText
    \/ RestoreFootnotes
    \/ CleanMarkdown

SpecNorm == InitNorm /\ [][NextNorm]_vars

\* ------------------------------------------------------- path segments

\* Characters of a title.
MaxTitleLen == 3

\* f"{counter:02d}-{clean_slug(slugify.slugify(translated_title))}", lines 222
\* and 236: the path segment built from a title under a counter.
PathSegment(counter, translated_title) ==
    TwoDigits(counter) \o <<"-">> \o clean_slug(slugify(translated_title))

TitleChars == {"4", "-", "G", SPACE}

\* Titles: every string of up to MaxTitleLen of these characters.
PlainTitles == UNION {[1..n -> TitleChars] : n \in 0..MaxTitleLen}

\* Numeral-hyphen prefixes a title may carry.
Numerals == { <<"3", "-">>, <<"1", "2", "-">> }

\* The segments built, under one counter, from a title with a numeral-hyphen
\* prefix and from the same title without it.
BuildSegments ==
    /\ sl.pc = "start"
    /\ sl' = [sl EXCEPT !.pc = "done",
                        !.segment = PathSegment(sl.counter, sl.numeral \o sl.title),
                        !.segment_plain = PathSegment(sl.counter, sl.title)]
    /\ UNCHANGED <<cacheVars, keyVars, syncVars, treeVars, entryVars, markupVars>>

InitSlug ==
    /\ disk = [f \in CacheFiles |-> NoFileContent]
    /\ tr = [p \in Procs |-> Idle]
    /\ persisted = [f \in CacheFiles |-> <<>>]
    /\ calls = 0
    /\ ep = NoEntry
    /\ im = NoImages
    /\ nm = NoNorm
    /\ keyIn = <<>>
    /\ keyOut = <<>>
    /\ fs = NoTree
    /\ sync = SyncIdle
    /\ prev = NoRun
    /\ dl = NoDownload
    /\ \E title \in PlainTitles, numeral \in Numerals, counter \in 1..2 :
        sl = [NoSlug EXCEPT !.pc = "start", !.title = title, !.numeral = numeral,
                            !.counter = counter]

NextSlug == BuildSegments

SpecSlug == InitSlug /\ [][NextSlug]_vars

\* ------------------------------------------------------ claims: the cache

\* The value stored under the pair's key, as Cache.get reads it.
StoredIn(file, text, lang) == CacheGet(load_cache(file).cache, text, lang)

\* The call of process p found, when it started, a well-formed cache file
\* holding an entry for its pair.
HeldEntryAtCall(p) ==
    /\ tr[p].pc \notin {"idle", "crashed"}
    /\ tr[p].use_cache
    /\ tr[p].disk0.exists
    /\ load_cache(tr[p].disk0).ok
    /\ StoredIn(tr[p].disk0, tr[p].text, tr[p].lang).found

\* C2: a translate call with caching whose cache file holds an entry for
\* (text, target_language) returns exactly the stored value, issues no backend
\* request and does not rewrite the cache file, whatever the stored value is.
C2_HitShortCircuits ==
    \A p \in Procs :
        HeldEntryAtCall(p) =>
            /\ tr[p].pc = "returned"
            /\ tr[p].result = StoredIn(tr[p].disk0, tr[p].text, tr[p].lang).v
            /\ tr[p].reqs = 0
            /\ ~tr[p].wrote
            /\ disk[tr[p].file] = tr[p].disk0

\* C4: after Cache.set(text, language, translation) has completed, Cache.get
\* of the same pair returns exactly that translation, both on the cache object
\* that did the set and on a new Cache loaded from the same file.
C4_SetThenGet ==
    \A p \in Procs :
        (tr[p].pc = "returned" /\ tr[p].wrote) =>
            /\ CacheGet(tr[p].cache, tr[p].text, tr[p].lang)
                   = [found |-> TRUE, v |-> tr[p].translation]
            /\ load_cache(disk[tr[p].file]).ok
            /\ StoredIn(disk[tr[p].file], tr[p].text, tr[p].lang)
                   = [found |-> TRUE, v |-> tr[p].translation]

\* C4's case: a completed set of a translation that holds a quote and a backslash.
C4_Witness ==
    \E p \in Procs :
        /\ tr[p].pc = "returned"
        /\ tr[p].wrote
        /\ tr[p].translation = <<BSLASH, "n", QUOTE>>

\* C9: a crash at any point of a run loses at most the entry being written:
\* every entry flushed by an earlier completed Cache.set, other than the one
\* under the key in flight, is still read back from the file with its value.
C9_CrashLosesAtMostInFlight ==
    \A p \in Procs :
        (tr[p].pc = "crashed" /\ tr[p].use_cache) =>
            LET f == tr[p].file
                old == persisted[f]
            IN  \A i \in 1..Len(old) :
                    old[i].k # Key(tr[p].text, tr[p].lang) =>
                        /\ load_cache(disk[f]).ok
                        /\ \E j \in 1..Len(load_cache(disk[f]).cache) :
                               load_cache(disk[f]).cache[j] = old[i]

\* The call of process p found its cache file present and malformed.
MalformedAtCall(p) ==
    /\ tr[p].pc \notin {"idle", "crashed"}
    /\ tr[p].use_cache
    /\ tr[p].disk0.exists
    /\ ~JsonLoad(tr[p].disk0.data).ok

\* C10: a translate call with caching on a cache file that exists and is
\* malformed fails with the parse error before any backend request, and the
\* file is left as it was.
C10_MalformedFailsFast ==
    \A p \in Procs :
        MalformedAtCall(p) =>
            /\ tr[p].pc = "raised"
            /\ tr[p].err = "JSONDecodeError"
            /\ tr[p].reqs = 0
            /\ ~tr[p].wrote
            /\ disk[tr[p].file] = tr[p].disk0

\* C10's case: a call has met a malformed cache file whose text is a cut-off
\* mapping (not just an empty file).
C10_Witness ==
    \E p \in Procs :
        /\ MalformedAtCall(p)
        /\ tr[p].pc = "raised"
        /\ tr[p].disk0.data # <<>>

\* C13: once a pair has a stored value in a cache file, a translate call with
\* caching (any text, any language) that has run to its end leaves the pair
\* resolving to that same value: no entry is changed or removed.
C13_MemoStable ==
    \A p \in Procs :
        (tr[p].pc \in {"returned", "raised"} /\ tr[p].use_cache
                /\ load_cache(tr[p].disk0).ok) =>
            \A text \in Texts, lang \in Langs :
                StoredIn(tr[p].disk0, text, lang).found =>
                    /\ load_cache(disk[tr[p].file]).ok
                    /\ StoredIn(disk[tr[p].file], text, lang)
                           = StoredIn(tr[p].disk0, text, lang)

\* The call of process p, with caching, found no entry for its pair (the cache
\* file missing, or well-formed without the pair's key).
MissAtCall(p) ==
    /\ tr[p].use_cache
    /\ load_cache(tr[p].disk0).ok
    /\ ~StoredIn(tr[p].disk0, tr[p].text, tr[p].lang).found

\* C20: a translate call issues at most one backend request.  On a miss with
\* caching it has issued exactly one when it returns, and the cache file then
\* maps the pair to the value returned.  Without caching it has issued exactly
\* one when it returns and the cache file is neither read (a malformed file
\* raises nothing, nothing is loaded) nor written.
C20_MissPath ==
    \A p \in Procs :
        /\ tr[p].reqs <= 1
        /\ (tr[p].pc = "returned" /\ MissAtCall(p)) =>
            /\ tr[p].reqs = 1
            /\ load_cache(disk[tr[p].file]).ok
            /\ StoredIn(disk[tr[p].file], tr[p].text, tr[p].lang)
                   = [found |-> TRUE, v |-> tr[p].result]
        /\ (tr[p].pc \in {"request", "returned", "raised"} /\ ~tr[p].use_cache) =>
            /\ tr[p].pc = "returned" => tr[p].reqs = 1
            /\ tr[p].err # "JSONDecodeError"
            /\ tr[p].cache = <<>>
            /\ ~tr[p].wrote
            /\ disk[tr[p].file] = tr[p].disk0

\* C20's case: a call with caching missed in a cache file that held another
\* pair, asked the backend once and returned with both pairs in the file.
C20_Witness ==
    \E p \in Procs :
        /\ tr[p].pc = "returned"
        /\ MissAtCall(p)
        /\ tr[p].disk0.exists
        /\ tr[p].reqs = 1
        /\ Len(load_cache(disk[tr[p].file]).cache) = 2

\* The keys of a mapping.
Keys(cache) == {cache[i].k : i \in 1..Len(cache)}

\* The keys a reader finds in a cache file: those of the mapping json.load
\* returns, none when the file is missing or malformed.
FileKeys(file) ==
    IF file.exists /\ JsonLoad(file.data).ok
    THEN Keys(JsonLoad(file.data).cache)
    ELSE {}

\* Process p ends its flush in this step (Cache.set and translate return),
\* after a call during which no other process held the same cache file.
SingleWriterFlush(p) ==
    /\ tr[p].pc = "save_write"
    /\ tr'[p].pc = "returned"
    /\ ~tr[p].overlap

\* C21: two processes use one cache file without locking.  A call that had the
\* file to itself from its load to the end of its flush (one writer at a time)
\* loses no entry: the file it leaves is well-formed and holds every key the
\* file held when the call loaded it, and the key of the call.  (The lost
\* update of two calls that overlap is the state C21_Witness.)
C21_SingleWriterKeepsEntries ==
    [][\A p \in Procs :
          SingleWriterFlush(p) =>
              LET left == disk'[CacheFileOf(tr[p].file)]
              IN  /\ left.exists /\ JsonLoad(left.data).ok
                  /\ FileKeys(tr[p].disk0) \subseteq FileKeys(left)
                  /\ Key(tr[p].text, tr[p].lang) \in FileKeys(left)]_vars

\* C21's case, the lost update: two processes have each completed a call that
\* stored a pair (different keys) in the same cache file, and the file holds
\* the entry of one of them only.
C21_Witness ==
    \E p, q \in Procs :
        /\ p # q
        /\ tr[p].pc = "returned" /\ tr[p].wrote
        /\ tr[q].pc = "returned" /\ tr[q].wrote
        /\ tr[p].file = tr[q].file
        /\ Key(tr[p].text, tr[p].lang) # Key(tr[q].text, tr[q].lang)
        /\ load_cache(disk[tr[p].file]).ok
        /\ StoredIn(disk[tr[p].file], tr[p].text, tr[p].lang).found
        /\ ~StoredIn(disk[tr[p].file], tr[q].text, tr[q].lang).found

\* C22: the cache files are independent namespaces.  A step changes the
\* content of a cache file only within a call, with caching, that was given
\* that file; and what a call finds when it starts is what its own file holds,
\* whatever the other file holds: it returns a stored value only if its own
\* file maps the pair to that value, it fails with the parse error only if its
\* own file is malformed, and the mapping it goes on with is the one of its
\* own file.
C22_NamespacesIndependent ==
    [][/\ \A f \in CacheFiles :
            (disk'[f] # disk[f] \/ persisted'[f] # persisted[f]) =>
                \E p \in Procs : /\ tr[p].file = f
                                  /\ tr[p].use_cache
                                  /\ tr[p].pc \in {"save_open", "save_write"}
       /\ \A p \in Procs :
            (calls' # calls /\ tr'[p] # tr[p] /\ tr'[p].use_cache) =>
                LET own == disk[tr'[p].file]
                    t == tr'[p]
                IN  /\ (t.pc = "returned") =>
                            StoredIn(own, t.text, t.lang) = [found |-> TRUE, v |-> t.result]
                    /\ (t.pc = "raised") => own.exists /\ ~JsonLoad(own.data).ok
                    /\ (t.pc = "request") =>
                            /\ load_cache(own).ok
                            /\ t.cache = load_cache(own).cache
                            /\ ~Truthy(StoredIn(own, t.text, t.lang))]_vars

\* C22's case: a call with caching missed in its own cache file, asked the
\* backend and returned, while the other cache file held a non-empty value
\* for the same pair and is left holding it.
C22_Witness ==
    \E p \in Procs : \E g \in CacheFiles :
        /\ tr[p].pc = "returned"
        /\ tr[p].use_cache
        /\ tr[p].file # g
        /\ tr[p].reqs = 1
        /\ load_cache(disk[g]).ok
        /\ Truthy(StoredIn(disk[g], tr[p].text, tr[p].lang))
        /\ Len(load_cache(disk[tr[p].file]).cache) = 1

\* C5: two pairs that differ in the text or in the language (or both) never get
\* the same key (the hash taken to be injective).
C5_KeysCollisionFree ==
    keyOut # <<>> => (keyIn[1] # keyIn[2] => keyOut[1] # keyOut[2])

\* --------------------------------------------------- claims: the sync run

DestPaths == FsPaths \ Paths

\* File j of the current change set raised an exception.
Failed(run, j) == run.outs[j].status = "failed"

\* The current run is a second run over the whole source tree, after a first
\* run over the same tree that warmed the cache: both list every file under
\* 'ru' and ran to the end, the sources are those of the first run, the target
\* language is the same and no file of either run failed.
SecondRunWarm ==
    /\ sync.pc = "done"
    /\ prev.run >= 1
    /\ Len(prev.outs) = Len(prev.changes)
    /\ sync.lang = prev.lang
    /\ \A p \in Paths : sync.fs0[p] = prev.fs0[p]
    /\ prev.changes = Walk(prev.fs0)
    /\ sync.changes = Walk(sync.fs0)
    /\ \A j \in 1..Len(prev.outs) : ~Failed(prev, j)
    /\ \A j \in 1..Len(sync.outs) : ~Failed(sync, j)

\* C1: a second sync run over an unchanged source tree with the cache warmed
\* by the first issues no backend request and leaves every destination file
\* as the first run wrote it, whatever the backend answered in the first run.
C1_SyncIdempotent ==
    SecondRunWarm =>
        /\ sync.reqs = 0
        /\ \A d \in DestPaths : fs[d] = prev.fsEnd[d]

\* C3: after process_files, a path of the change set under the source root
\* whose source file no longer exists has no mirrored destination file.
C3_DeletionPropagates ==
    (sync.pc = "done") =>
        \A j \in 1..Len(sync.changes) :
            LET file_path == sync.changes[j]
            IN  (StartsWith(file_path, RootPrefix) /\ ~fs[file_path].exists) =>
                    ~fs[NewPath(file_path, sync.lang)].exists

\* C8: process_files always runs to the end of the change set, and every file
\* under the source root that did not fail was translated or copied: its
\* destination holds what was written for it.
C8_FailureIsolation ==
    (sync.pc \in {"done", "aborted"}) =>
        /\ sync.pc = "done"
        /\ Len(sync.outs) = Len(sync.changes)
        /\ \A j \in 1..Len(sync.changes) :
            LET file_path == sync.changes[j]
            IN  (StartsWith(file_path, RootPrefix)
                    /\ (j > Len(sync.outs) \/ ~Failed(sync, j))) =>
                    /\ j <= Len(sync.outs)
                    /\ sync.outs[j].status =
                           (IF EndsWith(file_path, MdSuffix) THEN "translated"
                                                             ELSE "copied")
                    /\ fs[NewPath(file_path, sync.lang)] = File(sync.outs[j].content)

\* C8's case: a run over the three paths has ended; its first file failed and
\* a later file under the source root did not.
C8_Witness ==
    /\ sync.pc = "done"
    /\ Len(sync.changes) = 3
    /\ Failed(sync, 1)
    /\ sync.reqs = 1
    /\ sync.outs[2].status = "copied"

\* File j of the current run is a document under the source root whose source
\* exists, and the document-body cache is malformed.  A run that is going on
\* never turns a well-formed cache file into a malformed one, so the file was
\* malformed when translate_markdown loaded it for file j.
MetMalformedCache(j) ==
    /\ sync.pc \in {"loop", "done", "aborted"}
    /\ j <= Len(sync.outs)
    /\ StartsWith(sync.changes[j], RootPrefix)
    /\ EndsWith(sync.changes[j], MdSuffix)
    /\ sync.fs0[sync.changes[j]].exists
    /\ disk[MdCache].exists
    /\ ~load_cache(disk[MdCache]).ok

\* C11: a sync run that meets a malformed document-body cache file ends there:
\* process_files terminates at that file and handles no later file of the
\* change set.
C11_CorruptCacheIsFatal ==
    \A j \in 1..Len(sync.changes) :
        MetMalformedCache(j) =>
            /\ sync.pc = "aborted"
            /\ Len(sync.outs) = j

\* C14: every candidate path is routed to exactly one branch.  A path that is
\* not under 'ru/' is skipped and no destination is written for it; a path
\* under 'ru/' that ends in '.md' has the Translation Engine's result for its
\* content written to the mirrored destination; any other path under 'ru/' has
\* a byte-identical copy of the source written to the mirrored destination.  (A
\* file whose translation or copy raised has nothing written: that is C8.)
C14_SyncRouting ==
    (sync.pc \in {"loop", "done"}) =>
        /\ \A j \in 1..Len(sync.outs) :
            LET file_path == sync.changes[j]
                out == sync.outs[j]
                source == sync.fs0[file_path]
                dest == MirrorPath(file_path, sync.lang)
            IN  IF ~StartsWith(file_path, RootPrefix)
                THEN out.status = "skipped"
                ELSE IF EndsWith(file_path, MdSuffix)
                THEN out.status \in {"translated", "failed"}
                     /\ (out.status = "translated" =>
                            /\ fs[dest] = File(out.content)
                            /\ StoredIn(disk[MdCache], source.content, sync.lang)
                                   = [found |-> TRUE, v |-> out.content])
                ELSE out.status \in {"copied", "failed"}
                     /\ (out.status = "copied" => fs[dest] = File(source.content))
        /\ \A d \in DestPaths :
            fs[d] # sync.fs0[d] =>
                \E j \in 1..Len(sync.outs) :
                    /\ StartsWith(sync.changes[j], RootPrefix)
                    /\ d = MirrorPath(sync.changes[j], sync.lang)

\* C23: for every source path 'ru/<rest>' that a run has translated or copied,
\* the file written is '<target_language>/<rest>', <rest> unchanged character
\* for character (also when <rest> itself holds 'ru/'), and the run writes no
\* path that is not the mirror of a path it processed.
C23_MirroredDestination ==
    (sync.pc \in {"loop", "done"}) =>
        /\ \A j \in 1..Len(sync.outs) :
            sync.outs[j].status \in {"translated", "copied"} =>
                fs[MirrorPath(sync.changes[j], sync.lang)] = File(sync.outs[j].content)
        /\ \A d \in FsPaths \ Paths :
            fs[d] # sync.fs0[d] =>
                \E j \in 1..Len(sync.outs) :
                    /\ sync.outs[j].status \in {"translated", "copied"}
                    /\ d = MirrorPath(sync.changes[j], sync.lang)

\* ------------------------------------------------ claims: the entry points

\* The run lacks a credential its entry point needs: the translation API key
\* for the translate entry point, the session token or the API key for the
\* extraction entry point.
MissingCredential ==
    \/ ep.entry = "translate" /\ ~ep.api_key
    \/ ep.entry = "download" /\ (~ep.token \/ ~ep.api_key)

\* C12: a run that lacks a credential exits before any effect: no file is
\* processed, the source tree is not deleted, no remote call is issued and no
\* document is written.
C12_MissingCredentialsAbortFirst ==
    (ep.pc # "idle" /\ MissingCredential) =>
        /\ ep.pc \in {"start", "exit1"}
        /\ fs = ep.fs0
        /\ ep.remote = 0
        /\ sync.pc = "idle"
        /\ dl.docs = <<>>

\* download_course has returned because the content service does not list
\* the course (the only return before the section loop).
CourseNotListed == ep.entry = "download" /\ ep.pc = "returned"

\* C24: when download_course is called with a course code that the content
\* service does not list, it ends without having written any document and
\* every file of the source tree 'ru' is as it was before the call.
C24_FailedExtractionKeepsTree ==
    CourseNotListed =>
        /\ dl.docs = <<>>
        /\ \A p \in FsPaths : StartsWith(p, RootPrefix) => fs[p] = ep.fs0[p]

\* ----------------------------------------------- claims: the section tree

\* The chapter of position j: 1 at the first element, one more for each later
\* HEADER up to j.
ChapterAt(sections, j) ==
    1 + Cardinality({m \in 2..j : sections[m].type = "HEADER"})

\* The position where the chapter of position j began.
BoundaryBefore(sections, j) ==
    CHOOSE b \in 1..j :
        /\ b = 1 \/ sections[b].type = "HEADER"
        /\ \A m \in (b + 1)..j : sections[m].type # "HEADER"

\* The TEXT sections of the chapter of position j, up to j.
TextsInChapterUpTo(sections, j) ==
    Cardinality({m \in BoundaryBefore(sections, j)..j : sections[m].type = "TEXT"})

TypesOf(sections) == [j \in 1..Len(sections) |-> sections[j].type]

Numbering(docs) == [d \in 1..Len(docs) |-> <<docs[d].chapter, docs[d].section>>]

\* C6: in the single pass over the section list the chapter index is 1 from
\* the first element on and grows by one at each later HEADER, the section
\* index counts the TEXT sections since the chapter boundary, and each document
\* carries these numbers; [TEXT, HEADER, TEXT, TEXT] gives 1/1 in the tree
\* root, then 2/1 and 2/2.
C6_SectionNumbering ==
    /\ dl.pc \in {"loop", "done"} =>
        LET k == dl.i - 1
        IN  /\ dl.chapter_counter = IF k = 0 THEN 0 ELSE ChapterAt(dl.sections, k)
            /\ dl.section_counter =
                   IF k = 0 THEN 0 ELSE TextsInChapterUpTo(dl.sections, k)
    /\ \A d \in 1..Len(dl.docs) :
        /\ dl.sections[dl.docs[d].pos].type = "TEXT"
        /\ dl.docs[d].chapter = ChapterAt(dl.sections, dl.docs[d].pos)
        /\ dl.docs[d].section = TextsInChapterUpTo(dl.sections, dl.docs[d].pos)
    /\ (dl.pc = "done" /\ TypesOf(dl.sections) = <<"TEXT", "HEADER", "TEXT", "TEXT">>) =>
        /\ Numbering(dl.docs) = << <<1, 1>>, <<2, 1>>, <<2, 2>> >>
        /\ dl.docs[1].directory = <<"r", "u">>

\* C6's case: the pass over [TEXT, HEADER, TEXT, TEXT] has ended with its
\* three documents.
C6_Witness ==
    /\ dl.pc = "done"
    /\ TypesOf(dl.sections) = <<"TEXT", "HEADER", "TEXT", "TEXT">>
    /\ Len(dl.docs) = 3

\* os.path.join(directory, filename): the path save_markdown writes.
OutputPath(doc) == doc.directory \o <<"/">> \o doc.filename

\* The TEXT sections among the first k of the list.
TextsUpTo(sections, k) == {m \in 1..k : sections[m].type = "TEXT"}

\* C25: two different TEXT sections are never written to the same output path
\* (directory plus file name), whatever the titles translate to: while the
\* pass runs there is one document for each TEXT section handled so far, each
\* at a path of its own, and a pass that ends has produced as many different
\* paths as the list has TEXT sections.
C25_OneDocumentPerText ==
    /\ \A a, b \in 1..Len(dl.docs) :
        a # b => /\ dl.docs[a].pos # dl.docs[b].pos
                 /\ OutputPath(dl.docs[a]) # OutputPath(dl.docs[b])
    /\ dl.pc \in {"loop", "done"} =>
        /\ {dl.docs[d].pos : d \in 1..Len(dl.docs)} = TextsUpTo(dl.sections, dl.i - 1)
        /\ Cardinality({OutputPath(dl.docs[d]) : d \in 1..Len(dl.docs)})
               = Cardinality(TextsUpTo(dl.sections, dl.i - 1))

\* C25's case: a pass has ended with two documents that have the same file
\* name (same section number and same slug) in different chapters.
C25_Witness ==
    /\ dl.pc = "done"
    /\ \E a, b \in 1..Len(dl.docs) :
        /\ a # b
        /\ dl.docs[a].filename = dl.docs[b].filename

\* The loop is about to handle a section that is neither a HEADER nor a TEXT.
AtOther == dl.pc = "loop" /\ dl.sections[dl.i].type = "OTHER"

CountersUnchanged ==
    /\ dl'.chapter_counter = dl.chapter_counter
    /\ dl'.section_counter = dl.section_counter
    /\ dl'.parent_directory = dl.parent_directory

\* C7 as stated: a section that is neither HEADER nor TEXT changes nothing at
\* any position of the list, the first included: no document, and the chapter
\* counter, the section counter and the directory stay as they were.
C7_OtherIsNoOpEverywhere ==
    [][(AtOther /\ dl'.pc # "raised") =>
            (dl'.docs = dl.docs /\ CountersUnchanged)]_vars

\* C7, amended: such a section never produces a document; at every position
\* but the first it changes no counter, no directory and no cache file; as the
\* first element it opens chapter 1 (chapter counter 0 -> 1, section counter 0,
\* directory still empty).
C7_OtherIsNoOpAfterFirst ==
    [][AtOther =>
        /\ dl'.docs = dl.docs
        /\ dl.i > 1 => (CountersUnchanged /\ disk' = disk /\ dl'.pc # "raised")
        /\ dl.i = 1 => /\ dl'.chapter_counter = 1
                       /\ dl'.section_counter = 0
                       /\ dl'.parent_directory = <<>>]_vars

\* C7's case: a section of another type at a later position has been passed,
\* in a chapter that has a directory and a document.
C7_Witness ==
    /\ dl.pc \in {"loop", "done"}
    /\ dl.i > 2
    /\ dl.sections[dl.i - 1].type = "OTHER"
    /\ dl.parent_directory # <<>>
    /\ dl.section_counter > 0

\* The translation of a title that the titles cache holds.
TitleIn(file, title) == StoredIn(file, title, English).v

\* C15: every TEXT section of chapter 1 is written directly in 'ru'; every TEXT
\* section of a chapter n >= 2 is written in 'ru/{n:02d}-{slug}', the slug being
\* that of the title of the chapter's boundary element; the file name is
\* '{section:02d}-{slug}.md' with the section's own counter and title.
C15_ChapterOneFlattened ==
    \A d \in 1..Len(dl.docs) :
        LET doc == dl.docs[d]
            n == ChapterAt(dl.sections, doc.pos)
            boundary == dl.sections[BoundaryBefore(dl.sections, doc.pos)]
            section == dl.sections[doc.pos]
        IN  /\ n = 1 => doc.directory = <<"r", "u">>
            /\ n >= 2 =>
                doc.directory =
                    <<"r", "u", "/">> \o TwoDigits(n) \o <<"-">>
                        \o clean_slug(slugify(TitleIn(disk[TitlesCache], boundary.title)))
            /\ doc.filename =
                    TwoDigits(TextsInChapterUpTo(dl.sections, doc.pos)) \o <<"-">>
                        \o clean_slug(slugify(TitleIn(disk[TitlesCache], section.title)))
                        \o MdSuffix

\* C15's case: a pass has ended with a document of chapter 1 in the tree root
\* and a document of chapter 2 in that chapter's directory.
C15_Witness ==
    /\ dl.pc = "done"
    /\ \E d1, d2 \in 1..Len(dl.docs) :
        /\ dl.docs[d1].chapter = 1
        /\ dl.docs[d1].directory = <<"r", "u">>
        /\ dl.docs[d2].chapter = 2
        /\ dl.docs[d2].directory = <<"r", "u", "/", "0", "2", "-", "g", "o">>
        /\ dl.docs[d2].filename = <<"0", "1", "-", "g", "o", ".", "m", "d">>

\* ------------------------------------------------- claims: the images

\* The positions where an image reference with a /text/ path starts and goes
\* on, after the path, with one of the closers.
RefStarts(html, closers) ==
    {i \in 1..(Len(html) - 1) :
        /\ html[i] = IMG
        /\ html[i + 1] = TEXTDIR
        /\ QuoteFrom(html, i + 2) <= Len(html)
        /\ html[QuoteFrom(html, i + 2)] \in closers}

\* The paths of these references.
RefTags(html, closers) ==
    {SubSeq(html, i + 1, QuoteFrom(html, i + 2) - 1) : i \in RefStarts(html, closers)}

\* The markup with the path of each such reference whose path is in tags
\* replaced by its local name, everything else kept.
RECURSIVE LocalizeRefs(_, _, _, _, _)
LocalizeRefs(html, i, tags, closers, prefix) ==
    IF i > Len(html) THEN <<>>
    ELSE IF i \in RefStarts(html, closers)
            /\ SubSeq(html, i + 1, QuoteFrom(html, i + 2) - 1) \in tags
    THEN LET j == QuoteFrom(html, i + 2)
         IN  <<IMG>> \o prefix \o <<"-">> \o basename(SubSeq(html, i + 1, j - 1))
                 \o <<html[j]>> \o LocalizeRefs(html, j + 1, tags, closers, prefix)
    ELSE <<html[i]>> \o LocalizeRefs(html, i + 1, tags, closers, prefix)

\* The markup without its image references that have no alt attribute (the
\* references the pattern of line 78 does not match).
RECURSIVE DropBare(_, _)
DropBare(html, i) ==
    IF i > Len(html) THEN <<>>
    ELSE IF html[i] = IMG /\ QuoteFrom(html, i + 1) <= Len(html)
                          /\ html[QuoteFrom(html, i + 1)] = CLOSE
    THEN DropBare(html, QuoteFrom(html, i + 1) + 1)
    ELSE <<html[i]>> \o DropBare(html, i + 1)

\* The paths of the matching images that a fetch brought with status 200.
FetchedTags == {im.img_tags[k] : k \in {n \in 1..Len(im.status) : im.status[n]}}

\* C16: whatever images fail to be fetched, process_images_in_html returns;
\* the reference of each image that no fetch brought is as it was and only
\* the fetched images have a file; each fetched image has its file and its
\* reference rewritten to the local name.
C16_ImageFailureNonFatal ==
    (im.pc = "returned") =>
        /\ Len(im.status) = Len(FindImgTags(im.html0, 1))
        /\ im.files = {im.prefix \o <<"-">> \o basename(t) : t \in FetchedTags}
        /\ DropBare(im.html, 1)
               = LocalizeRefs(DropBare(im.html0, 1), 1, FetchedTags, {ALT}, im.prefix)

Img1Local == Intro \o <<"-">> \o Img1Png

\* C17: with every fetch successful, each image reference with a /text/ path,
\* with or without further attributes, is rewritten to prefix + '-' + basename
\* and a file of that name exists; <img src="/text/img1.png"> under the prefix
\* "02-intro" becomes a reference to 02-intro-img1.png.
C17_ImageLocalized ==
    (im.pc = "returned" /\ \A k \in 1..Len(im.status) : im.status[k]) =>
        LET tags == RefTags(im.html0, {ALT, CLOSE})
        IN  /\ im.html = LocalizeRefs(im.html0, 1, tags, {ALT, CLOSE}, im.prefix)
            /\ \A t \in tags : (im.prefix \o <<"-">> \o basename(t)) \in im.files
            /\ (im.html0 = <<"<p>">> \o ImgBare(Img1Png) /\ im.prefix = Intro) =>
                    /\ im.html = <<"<p>", IMG>> \o Img1Local \o <<CLOSE>>
                    /\ Img1Local \in im.files

\* ------------------------------------------------- claims: the slugs

\* s begins with a numeral followed by a hyphen.
RECURSIVE BeginsWithNumeralHyphen(_)
BeginsWithNumeralHyphen(s) ==
    /\ Len(s) >= 2
    /\ IsDigit(s[1])
    /\ (s[2] = "-" \/ BeginsWithNumeralHyphen(Tail(s)))

\* C18: the path segment built from a title that carries a numeral-hyphen
\* prefix equals the segment built from the same title without the prefix
\* under the same counter, and what follows the counter prefix in it does not
\* begin with a numeral-hyphen prefix.
C18_SlugStable ==
    (sl.pc = "done") =>
        /\ sl.segment = sl.segment_plain
        /\ ~BeginsWithNumeralHyphen(SubSeq(sl.segment, 4, Len(sl.segment)))

\* ---------------------------------------------- claims: the footnotes

\* s holds sub as a contiguous part.
Contains(s, sub) ==
    \E k \in 1..(Len(s) - Len(sub) + 1) : SubSeq(s, k, k + Len(sub) - 1) = sub

\* The positions of the markup where the popup-footnote idiom stands: the
\* clickable span, the number, the popup text span with the same id, '[x] ',
\* a body and the closing pair.
IdiomStarts(html) ==
    {i \in 1..(Len(html) - 5) :
        /\ \E id \in PopupIds : html[i] = PopupOpen(id) /\ html[i + 2] = PopupText(id)
        /\ html[i + 1] = SUP
        /\ html[i + 3] = XMARK
        /\ NextTok(html, i + 5, CLOSE2) <= Len(html)}

\* The bodies of the footnotes of the markup.
IdiomBodies(html) ==
    {SubSeq(html, i + 4, NextTok(html, i + 5, CLOSE2) - 1) : i \in IdiomStarts(html)}

PopupTokens ==
    {PopupOpen(id) : id \in PopupIds} \cup {PopupText(id) : id \in PopupIds}
        \cup {CLOSE2}

\* C19: the Markdown returned for markup that holds the popup-footnote idiom
\* with body B holds ^[B], and holds neither a placeholder token nor a part of
\* the popup span.
C19_FootnoteRoundTrip ==
    (nm.pc = "returned") =>
        /\ \A B \in IdiomBodies(nm.html0) : Contains(nm.text, <<"^[">> \o B \o <<"]">>)
        /\ \A k \in 1..Len(nm.text) :
            nm.text[k] \notin ({BEGINCOMMENT, ENDCOMMENT} \cup PopupTokens)

====
